---- MODULE Spec2Model ----
(***************************************************************************)
(* A model of col_agent.py: one run of the Catalogue of Life agent.        *)
(* The script is a straight line of stages: interpret the user's text with *)
(* a schema-constrained generation call, issue one search request, walk    *)
(* the raw result list into NameInfo entities, build the ColResponse       *)
(* envelope, ask for a summary, print the report and write the CSV file.   *)
(* An exception that no handler catches ends the run (pc = "aborted").     *)
(***************************************************************************)
EXTENDS Integers, Sequences, FiniteSets, TLC

VARIABLES
    pc,                  \* the stage the script is about to run
    user_message,        \* line 38: the text read from standard input
    generated,           \* what the generation service answered at line 50
    query_params,        \* line 50: the validated CoLQueryParams (optional)
    sent,                \* outbound calls made so far, in order
    response,            \* line 69: the HTTP response (optional)
    query_url,           \* line 70
    data,                \* line 77: the decoded payload (optional)
    idx,                 \* position of the for loop of line 79 in the raw list
    results,             \* line 73: the NameInfo entities appended so far
    total,               \* line 74 / 78
    structured_response, \* line 99: the ColResponse envelope (optional)
    summary,             \* what the generation service answered at line 116
    console,             \* the lines printed so far
    csv_file,            \* col_results.csv: absent, or its rows
    raised               \* the uncaught exception that ended the run

vars == <<pc, user_message, generated, query_params, sent, response, query_url,
          data, idx, results, total, structured_response, summary, console,
          csv_file, raised>>

(***************************************************************************)
(* Bounds and program constants.                                           *)
(***************************************************************************)
MaxResults == 2          \* longest raw result list the search returns

HttpOk == 200            \* line 76
DefaultLimit == 10       \* lines 21 and 65

(***************************************************************************)
(* Python's Optional: None is the empty sequence, a value x is <<x>>.      *)
(***************************************************************************)
None == <<>>
Some(x) == <<x>>

(***************************************************************************)
(* JSON values as Python sees them after response.json(): every value is   *)
(* tagged; an object carries a function f whose domain is its keys, so a   *)
(* missing key is a key outside DOMAIN f and a null is the value Null.     *)
(***************************************************************************)
Null == [tag |-> "null"]
Str(s) == [tag |-> "str", v |-> s]
Num(n) == [tag |-> "num", v |-> n]
List(s) == [tag |-> "list", v |-> s]
Obj(fields) == [tag |-> "obj", f |-> fields]
EmptyObj == Obj([k \in {} |-> Null])
EmptyList == List(<<>>)

\* dict.get(key, default) on a value that is a dict
PyGet(o, key, default) == IF key \in DOMAIN o.f THEN o.f[key] ELSE default

\* str(x) inside an f-string: None prints as "None"
PyFormat(x) == IF x.tag = "null" THEN "None" ELSE x.v

(***************************************************************************)
(* Line 50: the generation service's answers, and CoLQueryParams.          *)
(* A keyword is a sequence of characters so that blankness can be seen.    *)
(***************************************************************************)
Lion == <<"l", "i", "o", "n">>

GenOutputs ==
    << Obj([q |-> Str(Lion), rank |-> Str("genus"), limit |-> Num(5)]),
       Obj([q |-> Str(Lion)]),
       Obj([q |-> Str(<<>>), limit |-> Null]),
       Obj([q |-> Str(<<" ">>), rank |-> Str("species")]),
       Obj([q |-> Str(Lion), limit |-> Num(0)]),
       Obj([rank |-> Str("species")]),
       Obj([q |-> Str(Lion), limit |-> Str("many")]),
       [tag |-> "error"] >>

\* CoLQueryParams validation (lines 18-21): q is a required str with no
\* further constraint; rank is an optional str; limit an optional int.
CoLQueryParamsValidates(g) ==
    /\ g.tag = "obj"
    /\ "q" \in DOMAIN g.f
    /\ g.f["q"].tag = "str"
    /\ PyGet(g, "rank", Null).tag \in {"null", "str"}
    /\ PyGet(g, "limit", Null).tag \in {"null", "num"}

CoLQueryParams(g) ==
    [ q     |-> g.f["q"].v,
      rank  |-> LET r == PyGet(g, "rank", Null)
                IN IF r.tag = "null" THEN None ELSE Some(r.v),
      limit |-> LET l == PyGet(g, "limit", Num(DefaultLimit))
                IN IF l.tag = "null" THEN None ELSE Some(l.v) ]

\* a variant that swallows the failure and searches with a stock query
InterpretFailure_Fallback ==
    /\ pc' = "search"
    /\ raised' = "interpret"
    /\ query_params' = Some([q |-> Lion, rank |-> None, limit |-> None])

\* a failed generation call raises out of line 50; nothing catches it
InterpretFailure ==
    /\ pc' = "aborted"
    /\ raised' = "interpret"
    /\ query_params' = None

Interpret ==
    /\ pc = "interpret"
    /\ \E i \in 1..Len(GenOutputs) :
         LET g == GenOutputs[i] IN
         /\ generated' = Some(g)
         /\ sent' = Append(sent, [to |-> "generate", text |-> user_message])
         /\ IF CoLQueryParamsValidates(g)
            THEN /\ query_params' = Some(CoLQueryParams(g))
                 /\ pc' = "search"
                 /\ raised' = raised
            ELSE InterpretFailure
    /\ UNCHANGED <<user_message, response, query_url, data, idx, results, total,
                   structured_response, summary, console, csv_file>>

(***************************************************************************)
(* Lines 60-70: the single GET against the search API.                     *)
(***************************************************************************)
col_base_url == "https://api.checklistbank.org/dataset/3LR/nameusage/search"

\* Python's "x or d" on an optional value: None, "" and 0 are falsy
PyOr(opt, falsy, d) == IF opt = None \/ opt[1] = falsy THEN d ELSE opt[1]

\* lines 62-66
Params(qp) ==
    [ q     |-> qp.q,
      rank  |-> PyOr(qp.rank, "", "species"),
      limit |-> PyOr(qp.limit, 0, DefaultLimit) ]

\* response.url: the base endpoint with the applied parameters
MaterializedUrl(p) == <<col_base_url, p.q, p.rank, p.limit>>

NameObj(sn, rk) == Obj([scientificName |-> Str(sn), rank |-> Str(rk)])

(* The elements the search API may return: well-formed ones (1-3) and      *)
(* ones that are malformed in the ways an external payload can be.         *)
RawItems ==
    << \* 1: complete record
       Obj([usage |-> Obj([id |-> Str("ABC"),
                           name |-> NameObj("Panthera leo", "species")]),
            classification |-> List(<<Obj([name |-> Str("Animalia")]),
                                      Obj([name |-> Str("Felidae")])>>)]),
       \* 2: a synonym with no identifier and no classification key
       Obj([usage |-> Obj([name |-> NameObj("Felis leo", "species"),
                           accepted |-> Obj([name |->
                               Obj([scientificName |-> Str("Panthera leo")])])])]),
       \* 3: an empty classification list
       Obj([usage |-> Obj([id |-> Str("XYZ"),
                           name |-> NameObj("Panthera", "genus")]),
            classification |-> EmptyList]),
       \* 4: name object without scientificName and rank
       Obj([usage |-> Obj([name |-> EmptyObj])]),
       \* 5: no usage key
       EmptyObj,
       \* 6: usage is null
       Obj([usage |-> Null]),
       \* 7: name is null
       Obj([usage |-> Obj([id |-> Str("N1"), name |-> Null])]),
       \* 8: classification is null
       Obj([usage |-> Obj([id |-> Str("C1"),
                           name |-> NameObj("Puma concolor", "species")]),
            classification |-> Null]),
       \* 9: a classification entry without a name
       Obj([usage |-> Obj([id |-> Str("E1"),
                           name |-> NameObj("Lynx lynx", "species")]),
            classification |-> List(<<Obj([rank |-> Str("kingdom")])>>)]),
       \* 10: rank is missing
       Obj([usage |-> Obj([id |-> Str("R1"),
                           name |-> Obj([scientificName |-> Str("Felis")])])]),
       \* 11: accepted is null
       Obj([usage |-> Obj([id |-> Str("A1"),
                           name |-> NameObj("Felis catus", "species"),
                           accepted |-> Null])]),
       \* 12: scientificName is null
       Obj([usage |-> Obj([id |-> Str("V1"),
                           name |-> Obj([scientificName |-> Null,
                                         rank |-> Str("species")])])]) >>

RawLists ==
    UNION { [1..n -> 1..Len(RawItems)] : n \in 0..MaxResults }

\* the bodies a 200 response may carry: "total" and "result" may be missing
Payloads ==
    { Obj([total |-> Num(t), result |-> List([i \in DOMAIN l |-> RawItems[l[i]]])]) :
          t \in {0, 2, 5}, l \in RawLists }
    \cup { Obj([result |-> List([i \in DOMAIN l |-> RawItems[l[i]]])]) :
          l \in RawLists }
    \cup { Obj([total |-> Num(t)]) : t \in {0, 5} }

Statuses == {HttpOk, 404, 500}

Search ==
    /\ pc = "search"
    /\ LET p == Params(query_params[1]) IN
       /\ sent' = Append(sent, [to |-> "search", params |-> p])
       /\ query_url' = Some(MaterializedUrl(p))
       /\ \E s \in Statuses :
            \E body \in (IF s = HttpOk THEN Payloads ELSE {EmptyObj}) :
               response' = Some([status_code |-> s, body |-> body])
    /\ pc' = "status"
    /\ UNCHANGED <<user_message, generated, query_params, data, idx, results,
                   total, structured_response, summary, console, csv_file, raised>>

(***************************************************************************)
(* Lines 73-78 and 95-96: the status check.                                *)
(***************************************************************************)
\* a variant that takes every status but 500 for a success
StatusOk_Not500(r) == r.status_code # 500

StatusOk(r) == r.status_code = HttpOk

\* line 78: data.get("total", 0)
ReportedTotal(d) == PyGet(d, "total", Num(0)).v

\* line 79: data.get("result", [])
RawResult(d) == PyGet(d, "result", EmptyList).v

CheckStatus ==
    /\ pc = "status"
    /\ results' = <<>>
    /\ IF StatusOk(response[1])
       THEN /\ data' = Some(response[1].body)
            /\ total' = ReportedTotal(response[1].body)
            /\ idx' = 1
            /\ pc' = IF RawResult(response[1].body) = <<>> THEN "envelope" ELSE "loop"
            /\ console' = console
       ELSE /\ total' = 0
            /\ console' = Append(console,
                   [kind |-> "api_failed", status |-> response[1].status_code])
            /\ pc' = "envelope"
            /\ UNCHANGED <<data, idx>>
    /\ UNCHANGED <<user_message, generated, query_params, sent, response,
                   query_url, structured_response, summary, csv_file, raised>>

(***************************************************************************)
(* Lines 79-94: one iteration of the normalization loop.                   *)
(***************************************************************************)
TaxonUrl == "https://www.catalogueoflife.org/data/taxon/"

\* line 80; raises AttributeError when the element itself is not a dict
Usage(item) == PyGet(item, "usage", EmptyObj)

\* line 81; raises AttributeError when usage is null
NameInfoOf(item) == PyGet(Usage(item), "name", EmptyObj)

\* line 82: the entries of item.get("classification", [])
ClassificationEntries(item) == PyGet(item, "classification", EmptyList)

\* lines 80-82 run before the try block: what they raise is not caught
ExtractionRaises(item) ==
    \/ item.tag # "obj"
    \/ Usage(item).tag # "obj"
    \/ ClassificationEntries(item).tag # "list"
    \/ \E i \in DOMAIN ClassificationEntries(item).v :
           ClassificationEntries(item).v[i].tag # "obj"

\* line 82: [entry.get("name") for entry in ...]
Classification(item) ==
    [ i \in DOMAIN ClassificationEntries(item).v |->
          PyGet(ClassificationEntries(item).v[i], "name", Null) ]

\* line 88: the f-string around usage.get('id')
Link(item) == <<TaxonUrl, PyFormat(PyGet(Usage(item), "id", Null))>>

\* HttpUrl accepts any text with an http(s) scheme and a host
HttpUrlValidates(l) == l[1] = TaxonUrl

\* line 89: usage.get("accepted", {}).get("name", {}).get("scientificName")
AcceptedRaises(item) ==
    \/ PyGet(Usage(item), "accepted", EmptyObj).tag # "obj"
    \/ PyGet(PyGet(Usage(item), "accepted", EmptyObj), "name", EmptyObj).tag # "obj"

AcceptedName(item) ==
    PyGet(PyGet(PyGet(Usage(item), "accepted", EmptyObj), "name", EmptyObj),
          "scientificName", Null)

\* a variant that keeps the empty list
ClassificationOrNone_Keep(c) == Some(c)

\* line 90: classification or None
ClassificationOrNone(c) == IF c = <<>> THEN None ELSE Some(c)

\* lines 85-91 raise inside the try block: a subscript on None or on a
\* missing key, a .get on None, or NameInfo's validation (lines 24-29)
ConstructionRaises(item) ==
    \/ NameInfoOf(item).tag # "obj"
    \/ "scientificName" \notin DOMAIN NameInfoOf(item).f
    \/ "rank" \notin DOMAIN NameInfoOf(item).f
    \/ AcceptedRaises(item)
    \/ NameInfoOf(item).f["scientificName"].tag # "str"
    \/ NameInfoOf(item).f["rank"].tag # "str"
    \/ ~HttpUrlValidates(Link(item))
    \/ AcceptedName(item).tag \notin {"null", "str"}
    \/ \E i \in DOMAIN Classification(item) : Classification(item)[i].tag # "str"

\* lines 85-91
NameInfo(item) ==
    [ scientificName |-> NameInfoOf(item).f["scientificName"].v,
      rank           |-> NameInfoOf(item).f["rank"].v,
      link           |-> Some(Link(item)),
      acceptedName   |-> IF AcceptedName(item).tag = "null" THEN None
                         ELSE Some(AcceptedName(item).v),
      classification |-> ClassificationOrNone(
                             [i \in DOMAIN Classification(item) |->
                                  Classification(item)[i].v]) ]

\* a variant that puts the newest entity first
AppendResult_Prepend(rs, r) == <<r>> \o rs

\* line 92
AppendResult(rs, r) == Append(rs, r)

LoopAdvance ==
    /\ idx' = idx + 1
    /\ pc' = IF idx + 1 > Len(RawResult(data[1])) THEN "envelope" ELSE "loop"

LoopStep ==
    /\ pc = "loop"
    /\ LET item == RawResult(data[1])[idx] IN
       IF ExtractionRaises(item)
       THEN /\ pc' = "aborted"
            /\ raised' = "normalize"
            /\ UNCHANGED <<idx, results, console>>
       ELSE IF ConstructionRaises(item)
       THEN /\ console' = Append(console, [kind |-> "skip"])
            /\ LoopAdvance
            /\ UNCHANGED <<results, raised>>
       ELSE /\ results' = AppendResult(results, NameInfo(item))
            /\ LoopAdvance
            /\ UNCHANGED <<console, raised>>
    /\ UNCHANGED <<user_message, generated, query_params, sent, response,
                   query_url, data, total, structured_response, summary, csv_file>>

(***************************************************************************)
(* Lines 99-103: the ColResponse envelope.                                 *)
(***************************************************************************)
\* a variant that counts the surviving entities
EnvelopeTotal_FromLen == Len(results)

EnvelopeTotal == total

BuildEnvelope ==
    /\ pc = "envelope"
    /\ structured_response' =
           Some([results |-> results, query_url |-> query_url[1],
                 total |-> EnvelopeTotal])
    /\ pc' = "summarize"
    /\ UNCHANGED <<user_message, generated, query_params, sent, response,
                   query_url, data, idx, results, total, summary, console,
                   csv_file, raised>>

(***************************************************************************)
(* Lines 106-121: the summary call.  The service answers or fails; a       *)
(* failure raises out of line 116 and nothing catches it.                  *)
(***************************************************************************)
SummaryFailure ==
    /\ pc' = "aborted"
    /\ raised' = "summary"

Summarize ==
    /\ pc = "summarize"
    /\ sent' = Append(sent, [to |-> "summary", prompt |-> structured_response[1]])
    /\ \E ok \in BOOLEAN :
         /\ summary' = Some([ok |-> ok, content |-> IF ok THEN "digest" ELSE ""])
         /\ IF ok
            THEN pc' = "report" /\ raised' = raised
            ELSE SummaryFailure
    /\ UNCHANGED <<user_message, generated, query_params, response, query_url,
                   data, idx, results, total, structured_response, console,
                   csv_file>>

(***************************************************************************)
(* Lines 124-137: the console report.  A printed text is the sequence of   *)
(* its pieces, the empty text is <<>>.                                     *)
(***************************************************************************)
RECURSIVE Join(_, _)
Join(sep, xs) ==
    IF xs = <<>> THEN <<>>
    ELSE IF Len(xs) = 1 THEN <<xs[1]>>
    ELSE <<xs[1], sep>> \o Join(sep, Tail(xs))

\* lines 130-132
EntityLine(i, r) ==
    [ kind           |-> "entity",
      n              |-> i,
      scientificName |-> r.scientificName,
      rank           |-> r.rank,
      link           |-> IF r.link = None THEN <<"No link">> ELSE r.link[1],
      accepted       |-> IF r.acceptedName = None \/ r.acceptedName[1] = ""
                         THEN None ELSE r.acceptedName,
      classification |-> IF r.classification = None THEN <<>>
                         ELSE Join(" > ", r.classification[1]) ]

Report ==
    /\ pc = "report"
    /\ console' = console
          \o << [kind |-> "header"],
                [kind |-> "total", total |-> structured_response[1].total],
                [kind |-> "url", url |-> structured_response[1].query_url],
                [kind |-> "results"] >>
          \o [ i \in DOMAIN structured_response[1].results |->
                   EntityLine(i, structured_response[1].results[i]) ]
          \o << [kind |-> "summary", content |-> summary[1].content] >>
    /\ pc' = "export"
    /\ UNCHANGED <<user_message, generated, query_params, sent, response,
                   query_url, data, idx, results, total, structured_response,
                   summary, csv_file, raised>>

(***************************************************************************)
(* Lines 140-153: the CSV export.                                          *)
(***************************************************************************)
CsvHeader ==
    << <<"Scientific Name">>, <<"Rank">>, <<"Link">>, <<"Accepted Name">>,
       <<"Classification">> >>

\* lines 146-152
CsvRow(r) ==
    << <<r.scientificName>>,
       <<r.rank>>,
       IF r.link = None THEN <<>> ELSE r.link[1],
       IF r.acceptedName = None \/ r.acceptedName[1] = "" THEN <<>>
       ELSE r.acceptedName,
       Join(" > ", IF r.classification = None THEN <<>> ELSE r.classification[1]) >>

\* a variant that looks at the entities instead of the total
ExportGuard_FromResults == Len(structured_response[1].results) > 0

\* line 140
ExportGuard == structured_response[1].total > 0

Export ==
    /\ pc = "export"
    /\ IF ExportGuard
       THEN /\ csv_file' = Some(<<CsvHeader>> \o
                   [ i \in DOMAIN structured_response[1].results |->
                         CsvRow(structured_response[1].results[i]) ])
            /\ console' = Append(console, [kind |-> "saved"])
       ELSE UNCHANGED <<csv_file, console>>
    /\ pc' = "done"
    /\ UNCHANGED <<user_message, generated, query_params, sent, response,
                   query_url, data, idx, results, total, structured_response,
                   summary, raised>>

(***************************************************************************)
(* The run.                                                                *)
(***************************************************************************)
UserMessages == {"lions", ""}

Init ==
    /\ pc = "interpret"
    /\ user_message \in UserMessages
    /\ generated = None
    /\ query_params = None
    /\ sent = <<>>
    /\ response = None
    /\ query_url = None
    /\ data = None
    /\ idx = 0
    /\ results = <<>>
    /\ total = 0
    /\ structured_response = None
    /\ summary = None
    /\ console = <<>>
    /\ csv_file = None
    /\ raised = "none"

Next ==
    \/ Interpret
    \/ Search
    \/ CheckStatus
    \/ LoopStep
    \/ BuildEnvelope
    \/ Summarize
    \/ Report
    \/ Export

Spec == Init /\ [][Next]_vars

(***************************************************************************)
(* What the properties below read off the raw payload, written against     *)
(* the JSON itself and not against the operators of the loop.              *)
(***************************************************************************)
\* the raw result list of a successful response, in the API's order
Raw ==
    IF response # None /\ response[1].status_code = 200
       /\ "result" \in DOMAIN response[1].body.f
    THEN response[1].body.f["result"].v
    ELSE <<>>

\* the element carries a name object
SrcHasName(item) ==
    /\ item.tag = "obj"
    /\ "usage" \in DOMAIN item.f
    /\ item.f["usage"].tag = "obj"
    /\ "name" \in DOMAIN item.f["usage"].f
    /\ item.f["usage"].f["name"].tag = "obj"

SrcName(item) == item.f["usage"].f["name"].f

\* the element lacks scientificName or rank
SrcLacksRequired(item) ==
    ~(SrcHasName(item) /\ "scientificName" \in DOMAIN SrcName(item)
                       /\ "rank" \in DOMAIN SrcName(item))

\* entity r carries the scientificName and rank of element item
SrcOf(r, item) ==
    /\ ~SrcLacksRequired(item)
    /\ SrcName(item)["scientificName"].tag = "str"
    /\ SrcName(item)["rank"].tag = "str"
    /\ r.scientificName = SrcName(item)["scientificName"].v
    /\ r.rank = SrcName(item)["rank"].v

\* the order-preserving maps of 1..n into 1..m
Embeddings(n, m) ==
    { f \in [1..n -> 1..m] : \A i, j \in 1..n : i < j => f[i] < f[j] }

\* a text is blank when it is empty or holds only spaces
IsBlank(s) == \A i \in DOMAIN s : s[i] = " "

HasLine(kind) == \E i \in DOMAIN console : console[i].kind = kind

CountLines(kind) == Cardinality({ i \in DOMAIN console : console[i].kind = kind })

\* C1: for a payload returned with a success status the envelope's total is
\* the payload's reported total (0 when the payload reports none), whatever
\* was skipped; every emitted entity comes from an element that has both
\* scientificName and rank.
C1_TotalIsReportedTotal ==
    (structured_response # None /\ response[1].status_code = 200) =>
        /\ structured_response[1].total =
               (IF "total" \in DOMAIN response[1].body.f
                THEN response[1].body.f["total"].v ELSE 0)
        /\ \E f \in Embeddings(Len(structured_response[1].results), Len(Raw)) :
               \A k \in DOMAIN f :
                   SrcOf(structured_response[1].results[k], Raw[f[k]])

C1_Witness ==
    /\ structured_response # None
    /\ response[1].status_code = 200
    /\ structured_response[1].total = 5
    /\ Len(Raw) = 2
    /\ Len(structured_response[1].results) = 1
    /\ \E i \in DOMAIN Raw : SrcLacksRequired(Raw[i])

\* C2: no malformed element ends the run inside the normalization loop:
\* each one is skipped with a diagnostic and the loop goes on, so that when
\* the envelope is built every element was either emitted or skipped.
C2_MalformedNeverAborts ==
    /\ raised # "normalize"
    /\ (structured_response # None) =>
           Len(results) + CountLines("skip") = Len(Raw)

\* C3: when the generation service fails on the summary call the run still
\* completes: it goes on to the report and the export, and the report
\* carries a summary line.
C3_SummaryFailureCompletes ==
    (summary # None /\ ~summary[1].ok) =>
        /\ raised = "none"
        /\ pc \in {"report", "export", "done"}
        /\ (pc = "done" => HasLine("summary"))

\* C4: after a non-success HTTP status total is 0 and results is empty, the
\* diagnostic "API call failed: <status>" is printed, the status itself never
\* ends the run, the report that follows has no entity line, and no export
\* file is written.
C4_FailedStatusGivesEmptyReport ==
    (response # None /\ response[1].status_code # 200 /\ pc # "status") =>
        /\ total = 0
        /\ results = <<>>
        /\ \E i \in DOMAIN console :
               /\ console[i].kind = "api_failed"
               /\ console[i].status = response[1].status_code
        /\ csv_file = None
        /\ raised \in {"none", "summary"}
        /\ (structured_response # None =>
               /\ structured_response[1].total = 0
               /\ structured_response[1].results = <<>>)
        /\ (pc \in {"export", "done"} =>
               /\ HasLine("header") /\ HasLine("total") /\ HasLine("url")
               /\ HasLine("results") /\ ~HasLine("entity"))

C4_Witness ==
    /\ pc = "done"
    /\ response[1].status_code = 500
    /\ HasLine("api_failed")
    /\ HasLine("header")
    /\ csv_file = None

\* C5: a QueryParams that interpretation returns has a keyword that is not
\* empty and not only whitespace, and no search request carries a blank q.
C5_KeywordNeverBlank ==
    /\ (query_params # None => ~IsBlank(query_params[1].q))
    /\ \A i \in DOMAIN sent :
           sent[i].to = "search" => ~IsBlank(sent[i].params.q)

\* C6: the link of an emitted entity is absent when its source element has
\* no identifier, and otherwise is the detail-page template with the
\* identifier substituted.
C6_LinkAbsentWithoutId ==
    \E f \in Embeddings(Len(results), Len(Raw)) :
        \A k \in DOMAIN f :
            /\ SrcOf(results[k], Raw[f[k]])
            /\ LET u == Raw[f[k]].f["usage"].f IN
               results[k].link =
                   (IF "id" \in DOMAIN u /\ u["id"].tag = "str"
                    THEN Some(<<TaxonUrl, u["id"].v>>) ELSE None)

\* C7: the export file is never written unless the envelope's total is
\* greater than 0, a finished run has written it exactly when total > 0, and
\* a written file is the header row followed by one row per entity of
\* results, in results order.
C7_ExportIffTotalPositive ==
    /\ (csv_file # None => structured_response # None
                           /\ structured_response[1].total > 0)
    /\ (pc = "done" => (csv_file # None <=> structured_response[1].total > 0))
    /\ (csv_file # None =>
           LET rows == csv_file[1]
               rs == structured_response[1].results
           IN /\ Len(rows) = Len(rs) + 1
              /\ rows[1] = << <<"Scientific Name">>, <<"Rank">>, <<"Link">>,
                              <<"Accepted Name">>, <<"Classification">> >>
              /\ \A k \in DOMAIN rs :
                     /\ rows[k + 1][1] = <<rs[k].scientificName>>
                     /\ rows[k + 1][2] = <<rs[k].rank>>
                     /\ rows[k + 1][3] = (IF rs[k].link = None THEN <<>>
                                          ELSE rs[k].link[1])
                     /\ rows[k + 1][4] = rs[k].acceptedName
                     /\ rows[k + 1][5] =
                            Join(" > ", IF rs[k].classification = None THEN <<>>
                                        ELSE rs[k].classification[1]))

\* a run with total > 0 in which every element was skipped: header only
C7_Witness ==
    /\ pc = "done"
    /\ structured_response[1].total > 0
    /\ Len(Raw) > 0
    /\ structured_response[1].results = <<>>
    /\ csv_file # None
    /\ Len(csv_file[1]) = 1

\* C8: once the generation call has failed to yield a valid QueryParams the
\* run is over: no search request and no summary call is ever made, nothing
\* is printed and no export file is written.
C8_InterpretationFailureIsTerminal ==
    (raised = "interpret" \/ (generated # None /\ query_params = None)) =>
        /\ pc = "aborted"
        /\ raised = "interpret"
        /\ \A i \in DOMAIN sent : sent[i].to \notin {"search", "summary"}
        /\ response = None
        /\ summary = None
        /\ console = <<>>
        /\ csv_file = None

C8_Witness ==
    /\ pc = "aborted"
    /\ raised = "interpret"
    /\ generated # None
    /\ generated[1].tag = "obj"
    /\ "q" \notin DOMAIN generated[1].f

\* C9: results is a subsequence of the raw result list in the API's order:
\* there is an order-preserving map from results into the raw list under
\* which each entity is the entity of its element, so nothing is re-sorted
\* or duplicated and results is never longer than the raw list; the
\* envelope carries that same sequence.
C9_ResultsSubsequenceOfRaw ==
    /\ Len(results) <= Len(Raw)
    /\ \E f \in Embeddings(Len(results), Len(Raw)) :
           \A k \in DOMAIN f : SrcOf(results[k], Raw[f[k]])
    /\ (structured_response # None => structured_response[1].results = results)

C9_Witness ==
    /\ structured_response # None
    /\ Len(structured_response[1].results) = 2
    /\ structured_response[1].results[1].scientificName
           # structured_response[1].results[2].scientificName

\* the names of the element's classification entries, when it has a list
\* of entries that all carry a name
SrcClassificationOk(item) ==
    "classification" \in DOMAIN item.f =>
        /\ item.f["classification"].tag = "list"
        /\ \A i \in DOMAIN item.f["classification"].v :
               /\ item.f["classification"].v[i].tag = "obj"
               /\ "name" \in DOMAIN item.f["classification"].v[i].f
               /\ item.f["classification"].v[i].f["name"].tag = "str"

SrcClassificationNames(item) ==
    IF "classification" \in DOMAIN item.f
    THEN [ i \in DOMAIN item.f["classification"].v |->
               item.f["classification"].v[i].f["name"].v ]
    ELSE <<>>

\* C10: the classification of an emitted entity is absent or a non-empty
\* sequence: the names of the source element's classification entries in
\* their order when there is at least one, absent when the source list is
\* empty or missing.
C10_ClassificationAbsentOrNonEmpty ==
    /\ \A k \in DOMAIN results :
           \/ results[k].classification = None
           \/ Len(results[k].classification[1]) >= 1
    /\ \E f \in Embeddings(Len(results), Len(Raw)) :
           \A k \in DOMAIN f :
               /\ SrcOf(results[k], Raw[f[k]])
               /\ SrcClassificationOk(Raw[f[k]])
               /\ results[k].classification =
                      (IF SrcClassificationNames(Raw[f[k]]) = <<>> THEN None
                       ELSE Some(SrcClassificationNames(Raw[f[k]])))

\* an entity from an element with an empty list beside one with two entries
C10_Witness ==
    /\ Len(results) = 2
    /\ Len(Raw) = 2
    /\ \E k \in DOMAIN results :
           /\ results[k].classification = None
           /\ "classification" \in DOMAIN Raw[k].f
           /\ Raw[k].f["classification"].v = <<>>
    /\ \E k \in DOMAIN results :
           /\ results[k].classification # None
           /\ Len(results[k].classification[1]) = 2

====
